---- MODULE Spec2Model ----
(***************************************************************************)
(* LocalProMode (src/local_pro_mode.py): run(prompt, n_runs) fans out      *)
(* n_runs candidate completions over a ThreadPoolExecutor, each with a     *)
(* three-attempt retry loop, collects them by index, filters the blank     *)
(* ones and issues one synthesis completion over the rest.                 *)
(*                                                                         *)
(* A text is a sequence of one-character strings; "" is << >>.  The value  *)
(* None (message.content absent) is the one-element sequence NoneVal.      *)
(* Delays are in milliseconds.  Units (futures) are named by their index   *)
(* 0 .. n_runs-1, as in the source.                                        *)
(***************************************************************************)
EXTENDS Integers, Sequences, FiniteSets, TLC

VARIABLES
    pc,           \* position of the caller's thread inside run
    err,          \* exception that left run ("none" while there is none)
    n_runs,       \* argument of run
    max_workers,  \* size of the executor's pool
    candidates,   \* the candidates list of run, index -> text
    fut_to_idx,   \* future -> index, filled by the submit loop
    ustate,       \* per unit: position of its _one_completion
    attempt,      \* per unit: loop variable of _one_completion
    delay,        \* per unit: local variable delay of _one_completion
    result,       \* per unit: value its future resolved with
    calls,        \* per unit: chat.completions.create calls issued
    waits,        \* per unit: arguments of its time.sleep calls, in order
    collected,    \* futures as_completed has yielded so far
    messages,     \* messages of the synthesis request (<< >> before it)
    synthCalls,   \* synthesis chat.completions.create calls issued
    final_resp,   \* content of the synthesis response (NoneVal before it)
    final,        \* text returned as result["final"]
    svc,          \* script of a mocked completion service, per unit
                  \* (<< >>: no script, the service answers as it likes)
    ret,          \* the dict run returned (NoRet while it has not)
    writes,       \* per slot: futures whose outcome was stored in it
    errs          \* per unit: kinds of the exceptions its calls raised

vars == <<pc, err, n_runs, max_workers, candidates, fut_to_idx, ustate,
          attempt, delay, result, calls, waits, collected, messages,
          synthCalls, final_resp, final, svc, ret, writes, errs>>

unitVars == <<ustate, attempt, delay, result, calls, waits, errs>>
mainVars == <<pc, err, n_runs, max_workers, candidates, fut_to_idx,
              collected, messages, synthCalls, final_resp, final, svc, ret,
              writes>>

----------------------------------------------------------------------------
(* Bounds of the model and constants of the program *)

MaxN == 3

MaxAnswered == 2

PoolCap == 16

MaxAttempts == 3

InitialDelay == 500

BackoffFactor == 2

----------------------------------------------------------------------------
(* Texts *)

EmptyStr == << >>

NoneVal == <<"None">>

NoRet == [final |-> NoneVal, candidates |-> << >>]

Contents == { EmptyStr, <<" ">>, <<"a">>, <<"b">>, NoneVal }

IsSpace(ch) == ch = " "

RECURSIVE LStrip(_)
LStrip(s) ==
    IF s # << >> /\ IsSpace(Head(s)) THEN LStrip(Tail(s)) ELSE s

RECURSIVE RStrip(_)
RStrip(s) ==
    IF s # << >> /\ IsSpace(s[Len(s)])
        THEN RStrip(SubSeq(s, 1, Len(s) - 1))
        ELSE s

Strip(s) == RStrip(LStrip(s))

Truthy(c) == c # NoneVal /\ c # EmptyStr

Min(a, b) == IF a <= b THEN a ELSE b


(* variant: the filter does not strip *)
UsableNoStrip(c) == Truthy(c)

Usable(c) == Truthy(c) /\ Truthy(Strip(c))

----------------------------------------------------------------------------
(* Filtering and the synthesis request *)

RECURSIVE FilterFrom(_, _, _)
FilterFrom(cs, i, n) ==
    IF i >= n
        THEN << >>
        ELSE (IF Usable(cs[i]) THEN << cs[i] >> ELSE << >>)
                 \o FilterFrom(cs, i + 1, n)

(* variant: every slot is passed on, blank or not *)
Unfiltered(cs, n) == [j \in 1 .. n |-> cs[j - 1]]

Filtered(cs, n) == FilterFrom(cs, 0, n)

Tok(kind, label, txt) == [kind |-> kind, label |-> label, txt |-> txt]

CandLabel(i) == i + 1

CandBlock(i, txt) ==
    << Tok("open", CandLabel(i), EmptyStr),
       Tok("text", 0, txt),
       Tok("close", CandLabel(i), EmptyStr) >>

RECURSIVE JoinBlocks(_, _)
JoinBlocks(cands, j) ==
    IF j > Len(cands)
        THEN << >>
        ELSE (IF j > 1 THEN << Tok("sep", 0, EmptyStr) >> ELSE << >>)
                 \o CandBlock(j - 1, cands[j])
                 \o JoinBlocks(cands, j + 1)

Numbered(cands) == JoinBlocks(cands, 1)

BuildSynthesisMessages(cands) ==
    << [role |-> "system",
        content |-> << Tok("instruction", 0, EmptyStr) >>],
       [role |-> "user",
        content |-> << Tok("given", Len(cands), EmptyStr) >>
                        \o Numbered(cands)
                        \o << Tok("return", 0, EmptyStr) >>] >>

----------------------------------------------------------------------------
(* State *)

Units == 0 .. (n_runs - 1)

Terminal(i) == ustate[i] \in {"returned", "raised"}

Running(i) == ustate[i] \in {"calling", "sleeping"}

InitRun ==
    /\ pc = "idle"
    /\ err = "none"
    /\ n_runs = 0
    /\ max_workers = 0
    /\ candidates = << >>
    /\ fut_to_idx = << >>
    /\ ustate = << >>
    /\ attempt = << >>
    /\ delay = << >>
    /\ result = << >>
    /\ calls = << >>
    /\ waits = << >>
    /\ collected = {}
    /\ messages = << >>
    /\ synthCalls = 0
    /\ final_resp = NoneVal
    /\ final = NoneVal
    /\ ret = NoRet
    /\ writes = << >>
    /\ errs = << >>

Init == InitRun /\ svc = << >>

----------------------------------------------------------------------------
(* run: entry, validation, pool creation *)

(* variant: one worker per unit, no cap *)
MaxWorkersUncapped(n) == n

MaxWorkers(n) == Min(n, PoolCap)

(* variant: only negative counts are rejected *)
InvalidNNegative(n) == n < 0

InvalidN(n) == n < 1

Run(n) ==
    /\ pc = "idle"
    /\ n_runs' = n
    /\ IF InvalidN(n)
          THEN /\ pc' = "raised"
               /\ err' = "ValueError"
               /\ UNCHANGED <<max_workers, candidates, ustate, attempt,
                              delay, result, calls, waits, writes, errs>>
          ELSE /\ pc' = "submit"
               /\ err' = "none"
               /\ max_workers' = MaxWorkers(n)
               /\ candidates' = [i \in 0 .. (n - 1) |-> EmptyStr]
               /\ ustate' = [i \in 0 .. (n - 1) |-> "new"]
               /\ attempt' = [i \in 0 .. (n - 1) |-> 0]
               /\ delay' = [i \in 0 .. (n - 1) |-> 0]
               /\ result' = [i \in 0 .. (n - 1) |-> EmptyStr]
               /\ calls' = [i \in 0 .. (n - 1) |-> 0]
               /\ waits' = [i \in 0 .. (n - 1) |-> << >>]
               /\ writes' = [i \in 0 .. (n - 1) |-> << >>]
               /\ errs' = [i \in 0 .. (n - 1) |-> << >>]
    /\ UNCHANGED <<fut_to_idx, collected, messages, synthCalls, final_resp,
                   final, svc, ret>>

(* ex.submit(self._one_completion, prompt, 0.9): i  for i in range(n_runs) *)
NextSubmit == Cardinality(DOMAIN fut_to_idx)

Submit ==
    /\ pc = "submit"
    /\ LET i == NextSubmit IN
        /\ i < n_runs
        /\ ustate' = [ustate EXCEPT ![i] = "queued"]
        /\ fut_to_idx' = [f \in (DOMAIN fut_to_idx) \cup {i} |->
                              IF f = i THEN i ELSE fut_to_idx[f]]
        /\ pc' = IF i + 1 = n_runs THEN "collect" ELSE "submit"
    /\ UNCHANGED <<err, n_runs, max_workers, candidates, attempt, delay,
                   result, calls, waits, collected, messages, synthCalls,
                   final_resp, final, svc, ret, writes, errs>>

----------------------------------------------------------------------------
(* The pool's workers and _one_completion *)

NumRunning == Cardinality({i \in Units : Running(i)})

(* variant: the last worker of the pool is never used *)
WorkerFreeOffByOne == NumRunning + 1 < max_workers

WorkerFree == NumRunning < max_workers

QueueHead(i) ==
    /\ ustate[i] = "queued"
    /\ \A j \in Units : ustate[j] = "queued" => i <= j

(* a worker takes the oldest work item and enters _one_completion:
   delay = 0.5, attempt = 0, first create call *)
StartUnit(i) ==
    /\ pc \in {"submit", "collect"}
    /\ i \in Units
    /\ QueueHead(i)
    /\ WorkerFree
    /\ ustate' = [ustate EXCEPT ![i] = "calling"]
    /\ attempt' = [attempt EXCEPT ![i] = 0]
    /\ delay' = [delay EXCEPT ![i] = InitialDelay]
    /\ calls' = [calls EXCEPT ![i] = @ + 1]
    /\ UNCHANGED <<result, waits, errs>>
    /\ UNCHANGED mainVars

(* the create call returns: return resp.choices[0].message.content *)
AttemptReturns(i, c) ==
    /\ i \in Units
    /\ ustate[i] = "calling"
    /\ ustate' = [ustate EXCEPT ![i] = "returned"]
    /\ result' = [result EXCEPT ![i] = c]
    /\ UNCHANGED <<attempt, delay, calls, waits, errs>>
    /\ UNCHANGED mainVars

(* variant: the exception is re-raised one attempt early *)
LastAttemptSecond(a) == a = MaxAttempts - 2

LastAttempt(a) == a = MaxAttempts - 1

(* variant: only transient errors are retried *)
RetriedTransientOnly(kind) == kind = "transient"

(* except Exception: the handler takes every exception, whatever its kind *)
Retried(kind) == TRUE

(* the create call raises an exception of the given kind: re-raise on the
   last attempt, else sleep(delay) *)
AttemptFails(i, kind) ==
    /\ i \in Units
    /\ ustate[i] = "calling"
    /\ errs' = [errs EXCEPT ![i] = Append(@, kind)]
    /\ IF LastAttempt(attempt[i]) \/ ~Retried(kind)
          THEN /\ ustate' = [ustate EXCEPT ![i] = "raised"]
               /\ UNCHANGED waits
          ELSE /\ ustate' = [ustate EXCEPT ![i] = "sleeping"]
               /\ waits' = [waits EXCEPT ![i] = Append(@, delay[i])]
    /\ UNCHANGED <<attempt, delay, result, calls>>
    /\ UNCHANGED mainVars

(* variant: the delay is not doubled *)
NextDelayFlat(d) == d

NextDelay(d) == d * BackoffFactor

(* variant: the loop also goes on after a call that returned *)
InLoopAfterReturn(i) ==
    \/ ustate[i] = "sleeping"
    \/ ustate[i] = "returned" /\ attempt[i] < MaxAttempts - 1

(* the loop body is entered again only from the except branch *)
InLoop(i) == ustate[i] = "sleeping"

(* time.sleep returns: delay *= 2, next iteration, next create call *)
WakeUp(i) ==
    /\ i \in Units
    /\ InLoop(i)
    /\ delay' = [delay EXCEPT ![i] = NextDelay(@)]
    /\ attempt' = [attempt EXCEPT ![i] = @ + 1]
    /\ ustate' = [ustate EXCEPT ![i] = "calling"]
    /\ calls' = [calls EXCEPT ![i] = @ + 1]
    /\ UNCHANGED <<result, waits, errs>>
    /\ UNCHANGED mainVars

----------------------------------------------------------------------------
(* run: the as_completed loop *)

(* variant: the slot is the position in yield order *)
SlotByYieldOrder(fut) == Cardinality(collected)

SlotOf(fut) == fut_to_idx[fut]

(* variant: a failed future leaves an error text in its slot *)
OutcomeErrorText(fut) ==
    IF ustate[fut] = "returned" THEN result[fut] ELSE <<"e">>

Outcome(fut) == IF ustate[fut] = "returned" THEN result[fut] ELSE EmptyStr

Yielded == collected

(* except Exception around fut.result(): every unit exception is caught *)
(* variant: fut.result() is not guarded *)
ExceptCatchesNothing(fut) == FALSE

ExceptCatches(fut) == TRUE

Collect(fut) ==
    /\ pc = "collect"
    /\ fut \in DOMAIN fut_to_idx
    /\ fut \notin Yielded
    /\ Terminal(fut)
    /\ collected' = collected \cup {fut}
    /\ IF ustate[fut] = "raised" /\ ~ExceptCatches(fut)
          THEN /\ pc' = "raised"
               /\ err' = "CompletionError"
               /\ UNCHANGED <<candidates, writes>>
          ELSE /\ candidates' =
                      [candidates EXCEPT ![SlotOf(fut)] = Outcome(fut)]
               /\ writes' = [writes EXCEPT ![SlotOf(fut)] = Append(@, fut)]
               /\ UNCHANGED <<pc, err>>
    /\ UNCHANGED <<n_runs, max_workers, fut_to_idx, messages, synthCalls,
                   final_resp, final, svc, ret>>
    /\ UNCHANGED unitVars

AllYielded == Yielded = DOMAIN fut_to_idx

PoolJoined == \A i \in Units : Terminal(i)

(* variant: the loop is left after the first future, the pool not joined *)
DispatchFirstYield == collected # {}

DispatchComplete == AllYielded /\ PoolJoined

(* as_completed is exhausted and the with block joins the pool *)
ExitPool ==
    /\ pc = "collect"
    /\ DispatchComplete
    /\ pc' = "filter"
    /\ UNCHANGED <<err, n_runs, max_workers, candidates, fut_to_idx,
                   collected, messages, synthCalls, final_resp, final, svc,
                   ret, writes>>
    /\ UNCHANGED unitVars

----------------------------------------------------------------------------
(* run: filter, synthesis, return *)

(* variant: the empty filtered list is reported like a bad n_runs *)
AllFailedAsValueError == "ValueError"

(* raise RuntimeError("All candidate generations failed.") *)
AllFailedError == "RuntimeError"

(* variant: a single usable candidate is rejected as well *)
NoneUsableBelowTwo(filtered) == Len(filtered) < 2

(* variant: the empty filtered list is not rejected *)
NoneUsableIgnored(filtered) == FALSE

NoneUsable(filtered) == filtered = << >>

FilterAndSynthesize ==
    /\ pc = "filter"
    /\ LET filtered == Filtered(candidates, n_runs) IN
        IF NoneUsable(filtered)
            THEN /\ pc' = "raised"
                 /\ err' = AllFailedError
                 /\ UNCHANGED <<messages, synthCalls>>
            ELSE /\ pc' = "synthesis"
                 /\ messages' = BuildSynthesisMessages(filtered)
                 /\ synthCalls' = synthCalls + 1
                 /\ UNCHANGED err
    /\ UNCHANGED <<n_runs, max_workers, candidates, fut_to_idx, collected,
                   final_resp, final, svc, ret, writes>>
    /\ UNCHANGED unitVars

(* variant: the filtered list is returned *)
ReturnedFiltered == Filtered(candidates, n_runs)

(* return {"final": final, "candidates": candidates} *)
ReturnedCandidates == candidates

(* final = final_resp.choices[0].message.content *)
FinalOf(resp) == resp

SynthesisReturns(c) ==
    /\ pc = "synthesis"
    /\ final_resp' = c
    /\ final' = FinalOf(c)
    /\ ret' = [final |-> FinalOf(c), candidates |-> ReturnedCandidates]
    /\ pc' = "returned"
    /\ UNCHANGED <<err, n_runs, max_workers, candidates, fut_to_idx,
                   collected, messages, synthCalls, svc, writes>>
    /\ UNCHANGED unitVars

(* no handler around the synthesis call: its exception leaves run *)
(* variant: a failed synthesis call is issued again *)
RetrySynthesis == "filter"

AfterSynthesisFailure == "raised"

SynthesisFails ==
    /\ pc = "synthesis"
    /\ pc' = AfterSynthesisFailure
    /\ err' = IF AfterSynthesisFailure = "raised" THEN "APIError" ELSE err
    /\ UNCHANGED <<n_runs, max_workers, candidates, fut_to_idx, collected,
                   messages, synthCalls, final_resp, final, svc, ret,
                   writes>>
    /\ UNCHANGED unitVars

----
(* Specifications *)

NRange == (0 - 1) .. MaxN

(* the exceptions of a call, not told apart *)
ErrorKinds == {"error"}

PoolAnswered == 0 .. (MaxAnswered - 1)

PoolContents == { <<"a">> }

NRangePool == {PoolCap, PoolCap + 1}

Next ==
    \/ \E n \in NRange : Run(n)
    \/ Submit
    \/ \E i \in Units : StartUnit(i)
    \/ \E i \in Units, c \in Contents : AttemptReturns(i, c)
    \/ \E i \in Units, k \in ErrorKinds : AttemptFails(i, k)
    \/ \E i \in Units : WakeUp(i)
    \/ \E f \in DOMAIN fut_to_idx : Collect(f)
    \/ ExitPool
    \/ FilterAndSynthesize
    \/ \E c \in Contents : SynthesisReturns(c)
    \/ SynthesisFails

Spec == Init /\ [][Next]_vars

(* Dispatch of PoolCap and PoolCap + 1 units against a backend that answers
   only the requests of the units in PoolAnswered, with one text; the other
   requests stay in flight. *)
NextPool ==
    \/ \E n \in NRangePool : Run(n)
    \/ Submit
    \/ \E i \in Units : StartUnit(i)
    \/ \E i \in PoolAnswered, c \in PoolContents : AttemptReturns(i, c)
    \/ \E i \in PoolAnswered, k \in ErrorKinds : AttemptFails(i, k)
    \/ \E i \in Units : WakeUp(i)
    \/ \E f \in DOMAIN fut_to_idx : Collect(f)

SpecPool == Init /\ [][NextPool]_vars

(* A deterministic mocked completion service: the outcome of every candidate
   call is fixed by the unit and the attempt.  svc[i] makes the first
   svc[i].fails calls of unit i raise and every later one return
   svc[i].text. *)
MaxDetN == 2

FailVal == <<"raise">>

DetTexts == { <<"a">>, <<"b">>, EmptyStr }

DetScripts ==
    {[fails |-> f, text |-> t] : f \in 0 .. (MaxAttempts - 1), t \in DetTexts}
        \cup {[fails |-> MaxAttempts, text |-> EmptyStr]}

ScriptedOutcome(i, a) ==
    IF a < svc[i].fails THEN FailVal ELSE svc[i].text

ScriptedReturn(i) ==
    /\ i \in Units
    /\ ScriptedOutcome(i, attempt[i]) # FailVal
    /\ AttemptReturns(i, ScriptedOutcome(i, attempt[i]))

ScriptedFailure(i) ==
    /\ i \in Units
    /\ ScriptedOutcome(i, attempt[i]) = FailVal
    /\ AttemptFails(i, "error")

InitDet == InitRun /\ svc \in [0 .. (MaxDetN - 1) -> DetScripts]

NextDet ==
    \/ \E n \in 1 .. MaxDetN : Run(n)
    \/ Submit
    \/ \E i \in Units : StartUnit(i)
    \/ \E i \in Units : ScriptedReturn(i)
    \/ \E i \in Units : ScriptedFailure(i)
    \/ \E i \in Units : WakeUp(i)
    \/ \E f \in DOMAIN fut_to_idx : Collect(f)
    \/ ExitPool
    \/ FilterAndSynthesize
    \/ \E c \in PoolContents : SynthesisReturns(c)
    \/ SynthesisFails

SpecDet == InitDet /\ [][NextDet]_vars

(* A service whose failures are of two kinds, with one text.  SpecLive adds
   the scheduling assumption: threads keep running, every call returns or
   raises, every sleep ends. *)
MaxKindN == 2

FailureKinds == {"transient", "unrecoverable"}

NextKinds ==
    \/ \E n \in 1 .. MaxKindN : Run(n)
    \/ Submit
    \/ \E i \in Units : StartUnit(i)
    \/ \E i \in Units, c \in PoolContents : AttemptReturns(i, c)
    \/ \E i \in Units, k \in FailureKinds : AttemptFails(i, k)
    \/ \E i \in Units : WakeUp(i)
    \/ \E f \in DOMAIN fut_to_idx : Collect(f)
    \/ ExitPool
    \/ FilterAndSynthesize
    \/ \E c \in PoolContents : SynthesisReturns(c)
    \/ SynthesisFails

SpecKinds == Init /\ [][NextKinds]_vars

SpecLive == Init /\ [][NextKinds]_vars /\ WF_vars(NextKinds)

----------------------------------------------------------------------------
(* Properties *)

DispatchDone ==
    \/ pc \in {"filter", "synthesis", "returned"}
    \/ pc = "raised" /\ err # "ValueError"

Succeeded(i) == ustate[i] = "returned"

Failed(i) == ustate[i] = "raised"

UsableSlots == {i \in DOMAIN candidates : Usable(candidates[i])}

(* C1: when dispatch has finished, candidates has exactly n_runs entries and
   entry i holds the outcome of unit i (the text its future returned, or the
   empty text if it raised), whatever the order the futures were yielded in. *)
C1_SlotPerUnit ==
    DispatchDone =>
        /\ DOMAIN candidates = 0 .. (n_runs - 1)
        /\ Cardinality(DOMAIN candidates) = n_runs
        /\ \A i \in 0 .. (n_runs - 1) :
              candidates[i] = IF Succeeded(i) THEN result[i] ELSE EmptyStr

(* three units finished with three different outcomes, the last one after
   a retry *)
C1_Witness ==
    /\ pc = "filter"
    /\ n_runs = 3
    /\ candidates[0] = <<"a">>
    /\ candidates[1] = EmptyStr /\ Failed(1)
    /\ candidates[2] = <<"b">> /\ calls[2] = 2

(* C2 as stated: every result is a success with non-blank text or a failure
   with empty text. *)
C2_SuccessNonEmptyOrFailureEmpty ==
    DispatchDone =>
        \A i \in 0 .. (n_runs - 1) :
            \/ Succeeded(i) /\ Usable(candidates[i])
            \/ Failed(i) /\ candidates[i] = EmptyStr

(* C2 amended: every result is a success whose slot holds exactly the text
   the completion returned (which may be empty, blank or absent) or a
   failure whose slot holds the empty text; a slot with non-blank text is
   always a success. *)
C2_SuccessAsReturnedOrFailureEmpty ==
    DispatchDone =>
        \A i \in 0 .. (n_runs - 1) :
            /\ \/ Succeeded(i) /\ candidates[i] = result[i]
               \/ Failed(i) /\ candidates[i] = EmptyStr
            /\ Usable(candidates[i]) => Succeeded(i)

(* a success with blank text beside a failure and a non-blank success *)
C2_Witness ==
    /\ DispatchDone
    /\ n_runs = 3
    /\ Succeeded(0) /\ candidates[0] = <<" ">>
    /\ Failed(1) /\ candidates[1] = EmptyStr
    /\ Succeeded(2) /\ candidates[2] = <<"a">>

(* C3: if all n units fail after 3 attempts each, run raises the
   all-candidates-failed error and no synthesis request is ever issued. *)
C3_AllFailedNoSynthesis ==
    (n_runs >= 1 /\ \A i \in Units : Failed(i)) =>
        /\ synthCalls = 0
        /\ messages = << >>
        /\ \A i \in Units : calls[i] = 3
        /\ pc \in {"collect", "filter", "raised"}
        /\ pc = "raised" => err = "RuntimeError"

C3_Witness ==
    /\ n_runs = 2
    /\ \A i \in Units : Failed(i)
    /\ pc = "raised"
    /\ err = "RuntimeError"

(* C4: a unit makes at most 3 attempts; it sleeps only between a failed
   attempt and the next one, at most twice, 0.5 s then 1.0 s; nothing is
   slept after the third failure. *)
C4_RetryBackoff ==
    \A i \in Units :
        /\ calls[i] <= 3
        /\ Len(waits[i]) <= 2
        /\ \A k \in 1 .. Len(waits[i]) : waits[i][k] = <<500, 1000>>[k]
        /\ ustate[i] = "sleeping" => Len(waits[i]) = calls[i]
        /\ ustate[i] \in {"calling", "returned", "raised"} =>
               Len(waits[i]) = calls[i] - 1
        /\ Failed(i) => calls[i] = 3 /\ waits[i] = <<500, 1000>>

C4_Witness ==
    \E i \in Units : Failed(i) /\ calls[i] = 3 /\ waits[i] = <<500, 1000>>

(* C5: a unit that failed its 3 attempts becomes an empty slot and never
   leaves dispatch as an exception; every other unit is still started,
   attempted and recorded with its own outcome, and dispatch completes. *)
C5_ExhaustionIsolated ==
    /\ err # "CompletionError"
    /\ \A i \in Units :
          Failed(i) =>
              /\ pc = "raised" => err \in {"RuntimeError", "APIError"}
              /\ i \in Yielded => candidates[i] = EmptyStr
              /\ DispatchDone =>
                    /\ i \in Yielded
                    /\ \A j \in Units \ {i} :
                          /\ ustate[j] \in {"returned", "raised"}
                          /\ calls[j] >= 1
                          /\ j \in Yielded
                          /\ Succeeded(j) => candidates[j] = result[j]

(* a failed unit between two successful ones, and run returned *)
C5_Witness ==
    /\ pc = "returned"
    /\ n_runs = 3
    /\ Failed(1) /\ candidates[1] = EmptyStr
    /\ Succeeded(0) /\ candidates[0] = <<"a">>
    /\ Succeeded(2) /\ candidates[2] = <<"b">>

(* C6: the synthesis request is in flight or done only when every unit is
   terminal: none is queued, awaiting a response or in backoff. *)
C6_SynthesisAfterDispatch ==
    (pc \in {"synthesis", "returned"} \/ synthCalls > 0
        \/ messages # << >> \/ err = "APIError") =>
        /\ NextSubmit = n_runs
        /\ \A i \in Units : ustate[i] \in {"returned", "raised"}

C6_Witness ==
    /\ pc = "synthesis"
    /\ n_runs = 3
    /\ \E i \in Units : Failed(i)
    /\ \E i \in Units : Succeeded(i) /\ calls[i] = 2

(* C7: run with n < 1 raises the configuration error at once and issues no
   candidate request and no synthesis request. *)
C7_InvalidCountRejected ==
    (pc # "idle" /\ n_runs < 1) =>
        /\ pc = "raised"
        /\ err = "ValueError"
        /\ synthCalls = 0
        /\ DOMAIN calls = {}
        /\ DOMAIN fut_to_idx = {}

C7_Witness == pc = "raised" /\ err = "ValueError" /\ n_runs = 0

(* C8: the units that have started and are not terminal (awaiting a
   response or in backoff) are never more than min(n, 16); a unit beyond
   that stays queued while 16 are running. *)
C8_RunningWithinCap ==
    n_runs >= 1 =>
        /\ Cardinality({i \in Units : ustate[i] \in {"calling", "sleeping"}})
               <= (IF n_runs <= 16 THEN n_runs ELSE 16)
        /\ \A i \in Units :
              (i >= 16 /\ ustate[i] \in {"calling", "sleeping"}) =>
                  \E j \in Units :
                      j < i /\ ustate[j] \in {"returned", "raised"}

(* 17 units: the last one left the queue after unit 0 became terminal, and
   16 are running again, one of them in backoff *)
C8_Witness ==
    /\ n_runs = 17
    /\ Failed(0) \/ Succeeded(0)
    /\ ustate[1] = "sleeping"
    /\ ustate[16] = "calling"
    /\ Cardinality({i \in Units : ustate[i] \in {"calling", "sleeping"}}) = 16

(* C9: with at least one usable candidate exactly one synthesis request is
   issued; its failure is not retried and leaves run as an error; its
   success makes the response text the final answer. *)
C9_OneSynthesisCall ==
    /\ synthCalls <= 1
    /\ (pc \in {"synthesis", "returned", "raised"} /\ UsableSlots # {}
           /\ err # "CompletionError") =>
          synthCalls = 1
    /\ err = "APIError" => pc = "raised" /\ synthCalls = 1
    /\ pc = "returned" =>
          /\ synthCalls = 1
          /\ err = "none"
          /\ final = final_resp

C9_Witness ==
    /\ pc = "raised"
    /\ err = "APIError"
    /\ synthCalls = 1
    /\ UsableSlots # {}

(* C10: the body of the synthesis request has one block per usable
   candidate, labelled 1..k in the order of their indices, k being the
   number of usable slots; failed and blank slots give no block and leave
   no gap in the labels. *)
UserContent == messages[2].content

OpenAt == {p \in 1 .. Len(UserContent) : UserContent[p].kind = "open"}

(* position of the opening tag of the block labelled l, 0 if absent *)
OpenPos(l) ==
    IF \E p \in OpenAt : UserContent[p].label = l
        THEN CHOOSE p \in OpenAt : UserContent[p].label = l
        ELSE 0

(* the index of the l-th usable slot *)
UsableIndex(l) ==
    CHOOSE i \in UsableSlots :
        Cardinality({j \in UsableSlots : j < i}) = l - 1

C10_BlocksLabelled ==
    messages # << >> =>
        LET k == Cardinality(UsableSlots) IN
        /\ Cardinality(OpenAt) = k
        /\ Cardinality({p \in 1 .. Len(UserContent) :
                            UserContent[p].kind = "text"}) = k
        /\ UserContent[1] = Tok("given", k, EmptyStr)
        /\ \A p \in OpenAt, q \in OpenAt :
              p < q => UserContent[p].label < UserContent[q].label
        /\ \A l \in 1 .. k :
              LET p == OpenPos(l) IN
              /\ p # 0
              /\ UserContent[p + 1] = Tok("text", 0, candidates[UsableIndex(l)])
              /\ UserContent[p + 2] = Tok("close", l, EmptyStr)

(* slots 0 and 2 usable, slot 1 failed: two blocks, labelled 1 and 2 *)
C10_Witness ==
    /\ messages # << >>
    /\ n_runs = 3
    /\ Failed(1)
    /\ UsableSlots = {0, 2}
    /\ candidates[0] = <<"b">>
    /\ candidates[2] = <<"a">>
    /\ Len(UserContent) = 9

(* C11: if exactly one unit succeeded with non-blank text and every other
   unit failed, one synthesis request is issued whose body is the single
   block labelled 1 holding that text, and run returns when the synthesis
   call returns; n = 1 included. *)
SoleSuccess(i) ==
    /\ Succeeded(i)
    /\ Usable(result[i])
    /\ \A j \in Units \ {i} : Failed(j)

C11_SingleCandidate ==
    \A i \in Units :
        (SoleSuccess(i) /\ pc \in {"synthesis", "returned", "raised"}) =>
            /\ synthCalls = 1
            /\ messages # << >>
            /\ messages[2].content =
                   << Tok("given", 1, EmptyStr),
                      Tok("open", 1, EmptyStr),
                      Tok("text", 0, result[i]),
                      Tok("close", 1, EmptyStr),
                      Tok("return", 0, EmptyStr) >>
            /\ pc = "raised" => err = "APIError"
            /\ pc = "returned" => err = "none" /\ final = final_resp

(* three units, only the middle one succeeded; run returned the synthesis *)
C11_Witness ==
    /\ n_runs = 3
    /\ SoleSuccess(1)
    /\ result[1] = <<"b">>
    /\ pc = "returned"
    /\ final = <<"a">>

(* C12: with a deterministic completion service the candidates array does
   not depend on the scheduling of the units: whatever the interleaving, it
   is the array obtained by running the units one at a time in index order
   through the same three-attempt loop.  It is a function of the script and
   of n alone, so two runs with the same script and n give the same array. *)
RECURSIVE SeqOneCompletion(_, _)
SeqOneCompletion(script, a) ==
    IF a < script.fails
        THEN (IF a = 2 THEN FailVal ELSE SeqOneCompletion(script, a + 1))
        ELSE script.text

SeqSlot(script) ==
    IF SeqOneCompletion(script, 0) = FailVal
        THEN EmptyStr
        ELSE SeqOneCompletion(script, 0)

SeqCandidates(n) == [i \in 0 .. (n - 1) |-> SeqSlot(svc[i])]

C12_ScheduleIndependent ==
    /\ \A i \in Yielded : candidates[i] = SeqSlot(svc[i])
    /\ DispatchDone => candidates = SeqCandidates(n_runs)

(* unit 0 needs three calls, unit 1 one call: unit 1 is terminal long before
   unit 0, and the array is still in index order *)
C12_Witness ==
    /\ pc = "filter"
    /\ n_runs = 2
    /\ svc[0] = [fails |-> 2, text |-> <<"a">>]
    /\ svc[1] = [fails |-> 0, text |-> <<"b">>]
    /\ calls[0] = 3 /\ calls[1] = 1
    /\ candidates[0] = <<"a">>
    /\ candidates[1] = <<"b">>

(* C13: on success run returns the synthesized text and the whole
   candidates array, n entries in index order with the failed units as
   empty entries; filtering and synthesis do not change the array. *)
OutcomeArray ==
    [i \in 0 .. (n_runs - 1) |->
        IF Succeeded(i) THEN result[i] ELSE EmptyStr]

C13_ReturnsAllCandidates ==
    /\ pc # "returned" => ret = NoRet
    /\ pc = "returned" =>
          /\ ret.final = final_resp
          /\ DOMAIN ret.candidates = 0 .. (n_runs - 1)
          /\ ret.candidates = OutcomeArray
    /\ (pc \in {"synthesis", "returned"}
           \/ (pc = "raised" /\ err \in {"RuntimeError", "APIError"})) =>
          candidates = OutcomeArray

(* the scenario of the spec: "b", a failure, "a"; all three are returned *)
C13_Witness ==
    /\ pc = "returned"
    /\ n_runs = 3
    /\ Failed(1)
    /\ ret.candidates[0] = <<"b">>
    /\ ret.candidates[1] = EmptyStr
    /\ ret.candidates[2] = <<"a">>
    /\ ret.final = <<"a">>

(* C14: run fails in exactly three ways, each with its own error, and the
   error tells the stage: ValueError only for n < 1 before any request,
   RuntimeError only after dispatch with no usable candidate and no
   synthesis request, the client's error only from the synthesis call; the
   failure of a unit is never the error of run. *)
C14_ErrorTellsStage ==
    /\ pc # "raised" => err = "none"
    /\ pc = "raised" =>
          /\ err \in {"ValueError", "RuntimeError", "APIError"}
          /\ err = "ValueError" <=> n_runs < 1
          /\ err = "RuntimeError" <=>
                 (n_runs >= 1 /\ synthCalls = 0 /\ UsableSlots = {})
          /\ err = "APIError" <=>
                 (n_runs >= 1 /\ synthCalls = 1 /\ UsableSlots # {})

(* the synthesis call failed in a run where a unit had failed too *)
C14_Witness ==
    /\ pc = "raised"
    /\ err = "APIError"
    /\ n_runs = 2
    /\ Failed(0)
    /\ Succeeded(1)

(* C15: during dispatch the outcome of unit i is stored in slot i and in no
   other slot, once; no slot receives the outcome of another unit.  All
   stores are steps of the one thread that runs the as_completed loop. *)
C15_OneWritePerSlot ==
    \A slot \in DOMAIN writes :
        /\ Len(writes[slot]) <= 1
        /\ \A k \in 1 .. Len(writes[slot]) : writes[slot][k] = slot
        /\ slot \in Yielded <=> writes[slot] = << slot >>
        /\ DispatchDone => writes[slot] = << slot >>

(* slots 1 and 2 were written while unit 0 is still awaiting its response *)
C15_Witness ==
    /\ pc = "collect"
    /\ n_runs = 3
    /\ ustate[0] = "calling"
    /\ writes = [slot \in 0 .. 2 |-> IF slot = 0 THEN << >> ELSE << slot >>]

(* C16: the retry loop does not tell failures apart: after a transient and
   after an unrecoverable failure alike the unit sleeps and tries again, and
   it fails for good only with the third failure, whatever the kinds. *)
C16_FailuresNotClassified ==
    \A i \in Units :
        /\ Len(errs[i]) <= 3
        /\ Len(waits[i]) = (IF Len(errs[i]) <= 2 THEN Len(errs[i]) ELSE 2)
        /\ Failed(i) <=> Len(errs[i]) = 3
        /\ ustate[i] = "sleeping" => Len(errs[i]) = calls[i]
        /\ ustate[i] \in {"calling", "returned"} =>
               calls[i] = Len(errs[i]) + 1

(* one unit got through after an unrecoverable and a transient failure, the
   other failed three times with both kinds *)
C16_Witness ==
    /\ n_runs = 2
    /\ Succeeded(0)
    /\ errs[0] = <<"unrecoverable", "transient">>
    /\ Failed(1)
    /\ errs[1] = <<"transient", "unrecoverable", "unrecoverable">>

(* C17: if every call returns or raises, every sleep ends and the threads
   keep running, then every unit becomes terminal and is recorded, and run
   returns or raises. *)
C17_Terminates ==
    <>(/\ pc \in {"returned", "raised"}
       /\ \A i \in Units : Terminal(i) /\ i \in Yielded)

(* run returned after one unit used all three attempts *)
C17_Witness ==
    /\ pc = "returned"
    /\ n_runs = 2
    /\ Failed(0)
    /\ Succeeded(1) /\ calls[1] = 3

(* C18: a unit stops at its first successful call: its calls are the failed
   ones before it plus one, at most 3; a unit that is terminal makes no
   further call and no further wait. *)
C18_StopsAtFirstSuccess ==
    [][\A i \in DOMAIN ustate :
          /\ Terminal(i) =>
                /\ ustate'[i] = ustate[i]
                /\ calls'[i] = calls[i]
                /\ waits'[i] = waits[i]
                /\ result'[i] = result[i]
          /\ ustate'[i] = "returned" =>
                /\ calls'[i] = Len(errs'[i]) + 1
                /\ calls'[i] <= 3
          /\ ustate'[i] = "raised" =>
                /\ calls'[i] = 3
                /\ Len(errs'[i]) = 3]_vars

(* a unit that succeeded at its second call, seen after run returned *)
C18_Witness ==
    /\ pc = "returned"
    /\ \E i \in Units :
          /\ Succeeded(i)
          /\ Len(errs[i]) = 1
          /\ calls[i] = 2
          /\ waits[i] = <<500>>

(* C19: a call that returns empty, blank or absent text ends its unit like
   any success: no further call; the value stays as it is in candidates and
   gives no block in the synthesis request; run raises the
   all-candidates-failed error exactly when no slot holds non-blank text. *)
NonBlank(c) == c # NoneVal /\ \E k \in 1 .. Len(c) : c[k] # " "

BlankSuccess(i) == Succeeded(i) /\ ~NonBlank(result[i])

C19_BlankSuccess ==
    /\ \A i \in Units :
          BlankSuccess(i) =>
              /\ calls[i] = Len(errs[i]) + 1
              /\ i \in Yielded => candidates[i] = result[i]
    /\ messages # << >> =>
          /\ Cardinality(OpenAt) =
                 Cardinality({i \in Units :
                                  Succeeded(i) /\ NonBlank(result[i])})
          /\ \A p \in 1 .. Len(UserContent) :
                UserContent[p].kind = "text" => NonBlank(UserContent[p].txt)
    /\ (n_runs >= 1 /\ pc \in {"synthesis", "returned", "raised"}) =>
          ((pc = "raised" /\ err = "RuntimeError")
              <=> \A i \in Units : ~NonBlank(candidates[i]))

(* no unit failed, both returned at their first call, one a blank and one
   no text at all: the values are kept and run raised *)
C19_Witness ==
    /\ pc = "raised"
    /\ err = "RuntimeError"
    /\ n_runs = 2
    /\ BlankSuccess(0) /\ BlankSuccess(1)
    /\ calls[0] = 1 /\ calls[1] = 1
    /\ candidates[0] = <<" ">>
    /\ candidates[1] = NoneVal

====
